---------------------------- MODULE Spec2Model ----------------------------
(***************************************************************************)
(* Bulk create / update / destroy mixins of rest_framework_bulk (drf2).    *)
(*                                                                         *)
(* The record store is a table of rows keyed by an auto-increment primary  *)
(* key.  Every handler runs synchronously inside one request, so a handler *)
(* is one action; the hooks and serializer calls it makes are recorded, in *)
(* call order, in `log`.                                                   *)
(***************************************************************************)
EXTENDS Integers, Sequences, FiniteSets, TLC

\* ------------------------------------------------------------------ bounds
MaxPk == 4          \* capacity of the table (cap of the auto-increment counter)
MaxLen == 2         \* longest request payload (items)
MaxChars == 3       \* longest idList query string (characters)

\* --------------------------------------------------------- status codes
HTTP_200_OK == 200
HTTP_201_CREATED == 201
HTTP_204_NO_CONTENT == 204
HTTP_400_BAD_REQUEST == 400

\* ---------------------------------------------------------------- values
FixturePks == {1, 2}                 \* rows present when the service starts
Absent == "absent"                   \* a key the payload item does not carry
Bad == "bad"                         \* a value the field's validation rejects
HideChoices == {{}, {2}}             \* pks the view's filter_queryset excludes

\* an item's identity (its "id" key): missing, a JSON number or a JSON string
NoId == [t |-> "none", n |-> 0]
IntId(k) == [t |-> "int", n |-> k]
StrId(k) == [t |-> "str", n |-> k]

\* a model instance; pk = 0 is an instance that was never saved (pk is None)
Obj(pk, a, b) == [pk |-> pk, a |-> a, b |-> b]
NoObj == [pk |-> 0, a |-> "none", b |-> "none"]

Ev(e, i) == [e |-> e, i |-> i]       \* a call: hook name, index in serializer.object

NoBody == [kind |-> "none", items |-> <<>>]
NoResponse == [status |-> 0, body |-> NoBody]
Response(body, status) == [status |-> status, body |-> body]

VARIABLES
    db,        \* the table: pk -> [a, b]
    nextpk,    \* the auto-increment counter
    req,       \* the request the last handler served
    db0,       \* the table when that request arrived
    nextpk0,   \* the auto-increment counter when that request arrived
    resp,      \* the handler's response (NoResponse if it raised)
    raised,    \* the exception that left the handler, or "none"
    log,       \* hook and serializer calls of the handler, in order
    objs       \* serializer.object of that request

vars == <<db, nextpk, req, db0, nextpk0, resp, raised, log, objs>>

\* --------------------------------------------------------------- helpers
RECURSIVE SeqOfPks(_, _)
SeqOfPks(S, k) ==
    IF k > MaxPk THEN <<>>
    ELSE (IF k \in S THEN <<k>> ELSE <<>>) \o SeqOfPks(S, k + 1)

RECURSIVE SeqsUpTo(_, _)
SeqsUpTo(S, n) ==
    IF n = 0 THEN {<<>>}
    ELSE LET shorter == SeqsUpTo(S, n - 1)
         IN shorter \cup {Append(s, x) : s \in {t \in shorter : Len(t) = n - 1}, x \in S}

Range(s) == {s[i] : i \in 1..Len(s)}

Count(s, e) == Cardinality({i \in 1..Len(s) : s[i].e = e})

Positions(s, e) == {i \in 1..Len(s) : s[i].e = e}

\* ------------------------------------------------------------- querysets
\* self.filter_queryset(self.get_queryset()): the pks the view lets the request see
FilterQueryset(table, hide) == DOMAIN table \ hide

\* evaluating a queryset: the instances, in primary-key order
Instances(table, pks) ==
    LET order == SeqOfPks(pks \cap DOMAIN table, 1)
    IN [i \in 1..Len(order) |-> Obj(order[i], table[order[i]].a, table[order[i]].b)]


\* ------------------------------------------------------------- serializer
Fields == {"a", "b"}
Default == "x"
Item(id, a, b) == [id |-> id, a |-> a, b |-> b]

\* serializer.get_identity(item): the item's "id" key as the payload carries it
GetIdentity(item) == item.id

\* the identity of an instance, read from its serialized form: always a number
IdentityOf(obj) == IntId(obj.pk)

\* pk__in coerces every listed value to the pk column's type; the dict lookup
\* of the serializer (identity_to_objects.pop) does not
CoercePk(identity) == identity.n

\* errors of the writable fields of one item ("id" is read only and ignored):
\* a value the field rejects, or, unless partial, a field the item lacks (every
\* field is required)
FieldErrors(item, partial) ==
    {<<f, "invalid">> : f \in {g \in Fields : item[g] = Bad}}
      \cup {<<f, "required">> : f \in {g \in Fields : item[g] = Absent /\ ~partial}}

CannotCreate == {<<"non_field_errors", "Cannot create a new item, only existing items may be updated.">>}
ExpectedList == {<<"non_field_errors", "Expected a list of items.">>}

\* restore_object: the attributes the item carries are set on the instance
\* (a new, unsaved one when there is none); every other attribute is kept
RestoreObject(item, instance) ==
    LET base == IF instance = NoObj THEN Obj(0, Default, Default) ELSE instance
    IN [base EXCEPT !.a = IF item.a = Absent THEN @ ELSE item.a,
                    !.b = IF item.b = Absent THEN @ ELSE item.b]

\* from_native of one item against `instance`
FromNative(item, instance, partial) ==
    LET errs == FieldErrors(item, partial)
    IN [obj |-> IF errs = {} THEN RestoreObject(item, instance) ELSE NoObj,
        errs |-> errs]

\* the loop of BaseSerializer.errors over the items of a list payload.
\* `left` is identity_to_objects: the identities of the instances no item has
\* claimed yet (pop removes the one an item claims)
RECURSIVE Deserialize(_, _, _, _, _, _)
Deserialize(items, instance, left, update, allow_add_remove, partial) ==
    IF items = <<>> THEN [objects |-> <<>>, errors |-> <<>>, left |-> left]
    ELSE
      LET item == Head(items)
          identity == GetIdentity(item)
          found == update /\ identity \in left
          target == IF found
                    THEN CHOOSE o \in Range(instance) : IdentityOf(o) = identity
                    ELSE NoObj
          left1 == IF found THEN left \ {identity} ELSE left
          refused == update /\ ~found /\ ~allow_add_remove
          one == IF refused THEN [obj |-> NoObj, errs |-> CannotCreate]
                 ELSE FromNative(item, target, partial)
          rest == Deserialize(Tail(items), instance, left1, update, allow_add_remove, partial)
      IN [objects |-> <<one.obj>> \o rest.objects,
          errors |-> <<one.errs>> \o rest.errors,
          left |-> rest.left]

\* serializer.is_valid() of a many=True serializer; `update` says it was built
\* over instances.  objects is serializer.object, deleted its _deleted list
IsValidMany(instance, update, payload, allow_add_remove, partial) ==
    IF ~payload.list
    THEN [valid |-> FALSE, objects |-> <<>>, deleted |-> {},
          errors |-> [kind |-> "errors", items |-> <<ExpectedList>>]]
    ELSE
      LET r == Deserialize(payload.items, instance, {IdentityOf(o) : o \in Range(instance)},
                           update, allow_add_remove, partial)
          anyErr == \E i \in 1..Len(r.errors) : r.errors[i] # {}
      IN [valid |-> ~anyErr,
          objects |-> IF anyErr THEN <<>> ELSE r.objects,
          deleted |-> IF update /\ allow_add_remove /\ ~anyErr
                      THEN {o.pk : o \in {x \in Range(instance) : IdentityOf(x) \in r.left}}
                      ELSE {},
          errors |-> [kind |-> "errors", items |-> IF anyErr THEN r.errors ELSE <<>>]]

\* Model.save(force_insert, force_update) of one instance
SaveObject(st, obj, force_insert, force_update) ==
    IF st.error # "none" THEN st
    ELSE IF obj.pk = 0
    THEN IF force_update
         THEN [st EXCEPT !.error = "ValueError"]
         ELSE [st EXCEPT !.db = [k \in DOMAIN st.db \cup {st.nextpk} |->
                                    IF k = st.nextpk THEN [a |-> obj.a, b |-> obj.b]
                                    ELSE st.db[k]],
                         !.nextpk = st.nextpk + 1,
                         !.saved = Append(@, [obj EXCEPT !.pk = st.nextpk])]
    ELSE IF force_insert
    THEN [st EXCEPT !.error = "IntegrityError"]
    ELSE IF obj.pk \in DOMAIN st.db
    THEN [st EXCEPT !.db = [@ EXCEPT ![obj.pk] = [a |-> obj.a, b |-> obj.b]],
                    !.saved = Append(@, obj)]
    ELSE [st EXCEPT !.error = "DatabaseError"]

\* serializer.delete_object(obj): obj.delete()
DeleteObject(table, pk) == [k \in DOMAIN table \ {pk} |-> table[k]]

RECURSIVE SaveAll(_, _, _, _)
SaveAll(st, objects, force_insert, force_update) ==
    IF objects = <<>> THEN st
    ELSE SaveAll(SaveObject(st, Head(objects), force_insert, force_update),
                 Tail(objects), force_insert, force_update)

\* serializer.save(**kwargs) of a many=True serializer: every object is saved,
\* then every instance left in _deleted is deleted
SerializerSave(table, counter, objects, deleted, force_insert, force_update) ==
    LET st == SaveAll([db |-> table, nextpk |-> counter, saved |-> <<>>, error |-> "none"],
                      objects, force_insert, force_update)
    IN IF st.error # "none" THEN st
       ELSE [st EXCEPT !.db = [k \in DOMAIN st.db \ deleted |-> st.db[k]]]

\* serializer.data: the saved objects, serialized
Data(saved) == [kind |-> "data", items |-> saved]


\* ---------------------------------------------------------------- requests
NoParam == [present |-> FALSE, s |-> <<>>]
Param(s) == [present |-> TRUE, s |-> s]
NoPayload == [list |-> TRUE, items |-> <<>>]

Request(op, idList, hide, payload, force, allow, partial, failAt) ==
    [op |-> op, idList |-> idList, hide |-> hide, payload |-> payload,
     post_force_bulk |-> force, post_allow_update |-> allow, partial |-> partial,
     failAt |-> failAt]

NoRequest == Request("none", NoParam, {}, NoPayload, FALSE, FALSE, FALSE, 0)

\* ------------------------------------------------------- idList parsing
\* the characters a query string is drawn from: decimal digits, the comma, a
\* blank, a letter, and "sup2" for U+00B2 (numeric, but no decimal digit)
Chars == {"1", "2", ",", " ", "x", "sup2"}
Decimals == {"1", "2"}
Numerics == Decimals \cup {"sup2"}

DecimalValue(c) == IF c = "1" THEN 1 ELSE 2

\* unicode.split(','): the pieces between the commas, empty ones included
RECURSIVE Split(_, _)
Split(s, cur) ==
    IF s = <<>> THEN <<cur>>
    ELSE IF Head(s) = "," THEN <<cur>> \o Split(Tail(s), <<>>)
    ELSE Split(Tail(s), Append(cur, Head(s)))

RECURSIVE LStrip(_)
LStrip(s) == IF s # <<>> /\ Head(s) = " " THEN LStrip(Tail(s)) ELSE s

RECURSIVE RStrip(_)
RStrip(s) ==
    IF s # <<>> /\ s[Len(s)] = " " THEN RStrip(SubSeq(s, 1, Len(s) - 1)) ELSE s

\* unicode.strip()
Strip(s) == RStrip(LStrip(s))

\* unicode.isnumeric(): not empty, every character has a numeric value
IsNumeric(s) == s # <<>> /\ \A i \in 1..Len(s) : s[i] \in Numerics

\* int(x) raises ValueError unless every character is a decimal digit
IntRaises(s) == \E i \in 1..Len(s) : s[i] \notin Decimals

RECURSIVE IntOf(_, _)
IntOf(s, acc) ==
    IF s = <<>> THEN acc ELSE IntOf(Tail(s), 10 * acc + DecimalValue(Head(s)))

\* del_list_strs: filter(None, [x.strip() for x in value.split(',')])
DelListStrs(value) ==
    LET pieces == Split(value, <<>>)
        stripped == [i \in 1..Len(pieces) |-> Strip(pieces[i])]
    IN SelectSeq(stripped, LAMBDA t : t # <<>>)

\* the tokens int() is applied to: [... for x in del_list_strs if x.isnumeric()]
NumericStrs(value) == SelectSeq(DelListStrs(value), IsNumeric)

\* del_list, when no int() raised
DelList(value) ==
    LET toks == NumericStrs(value) IN {IntOf(toks[i], 0) : i \in 1..Len(toks)}


\* ------------------------------------------------------------------ hooks
Calls(e, n) == [i \in 1..n |-> Ev(e, i)]

\* mutant: the loop swallows the hook's ValidationError and goes on
PreSaveLoop_Swallowing(n, failAt) == [raised |-> FALSE, log |-> Calls("pre_save", n)]

\* `for obj in serializer.object: self.pre_save(obj)`, where the hook raises
\* ValidationError on object number failAt (0: on none)
PreSaveLoop(n, failAt) ==
    IF failAt \in 1..n
    THEN [raised |-> TRUE, log |-> Calls("pre_save", failAt)]
    ELSE [raised |-> FALSE, log |-> Calls("pre_save", n)]

Outcome(table, counter, response, exc, calls, objects) ==
    [db |-> table, nextpk |-> counter, resp |-> response, raised |-> exc,
     log |-> calls, objs |-> objects]

\* ---------------------------------------------------- BulkDestroyModelMixin
\* mutant: a missing idList is not rejected
IdListMissing_Never(idList) == FALSE

\* `if del_list_value is None`
IdListMissing(idList) == ~idList.present

\* mutant: the objects are deleted before pre_bulk_delete is called
DestroyLog_DeleteFirst(n) ==
    Calls("pre_delete", n) \o Calls("delete_object", n)
      \o <<Ev("pre_bulk_delete", 0), Ev("post_bulk_delete", 0)>>
      \o Calls("post_delete", n)

\* the calls of a destroy whose serializer is valid, over n matched objects
DestroyLog(n) ==
    Calls("pre_delete", n) \o <<Ev("pre_bulk_delete", 0)>>
      \o Calls("delete_object", n) \o <<Ev("post_bulk_delete", 0)>>
      \o Calls("post_delete", n)

RECURSIVE DeleteAll(_, _)
DeleteAll(table, objects) ==
    IF objects = <<>> THEN table
    ELSE DeleteAll(DeleteObject(table, Head(objects).pk), Tail(objects))

\* qs.filter(pk__in=del_list)
DestroyFiltered(table, hide, value) ==
    Instances(table, FilterQueryset(table, hide) \cap DelList(value))

DestroyOutcome(table, counter, idList, hide) ==
    IF IdListMissing(idList)
    THEN Outcome(table, counter, Response(NoBody, HTTP_400_BAD_REQUEST), "none", <<>>, <<>>)
    ELSE IF \E t \in Range(NumericStrs(idList.s)) : IntRaises(t)
    THEN Outcome(table, counter, NoResponse, "ValueError", <<>>, <<>>)
    ELSE
      LET filtered == DestroyFiltered(table, hide, idList.s)
          data == [list |-> TRUE,
                   items |-> [i \in 1..Len(filtered) |->
                                 Item(IntId(filtered[i].pk), Absent, Absent)]]
          serializer == IsValidMany(filtered, TRUE, data, FALSE, TRUE)
      IN IF serializer.valid
         THEN Outcome(DeleteAll(table, serializer.objects), counter,
                      Response(NoBody, HTTP_204_NO_CONTENT), "none",
                      <<Ev("is_valid", 0)>> \o DestroyLog(Len(serializer.objects)),
                      serializer.objects)
         ELSE Outcome(table, counter, Response(serializer.errors, HTTP_400_BAD_REQUEST),
                      "none", <<Ev("is_valid", 0)>>, <<>>)

\* the effect of a handler on the table and on what the request leaves behind
Serve(request, out) ==
    \E o \in {out} :
        /\ o.nextpk <= MaxPk + 1
        /\ req' = request
        /\ db0' = db
        /\ nextpk0' = nextpk
        /\ db' = o.db
        /\ nextpk' = o.nextpk
        /\ resp' = o.resp
        /\ raised' = o.raised
        /\ log' = o.log
        /\ objs' = o.objs

IdLists == {NoParam} \cup {Param(s) : s \in SeqsUpTo(Chars, MaxChars)}

\* a worker that is serving no request serves one
Idle == req = NoRequest

Destroy ==
    /\ Idle
    /\ \E idList \in IdLists, hide \in HideChoices :
        Serve(Request("destroy", idList, hide, NoPayload, FALSE, FALSE, FALSE, 0),
              DestroyOutcome(db, nextpk, idList, hide))

\* ----------------------------------------------------- CreateModelMixin
\* the framework's single-object create, which the bulk mixin extends:
\* validate, pre_save, save(force_insert=True), post_save(created=True), 201
SingleCreate(table, counter, payload, failAt) ==
    LET item == payload.items[1]
        one == FromNative(item, NoObj, FALSE)
        pre == PreSaveLoop(1, failAt)
        st == SerializerSave(table, counter, <<one.obj>>, {}, TRUE, FALSE)
    IN IF one.errs # {}
       THEN Outcome(table, counter,
                    Response([kind |-> "errors", items |-> <<one.errs>>], HTTP_400_BAD_REQUEST),
                    "none", <<Ev("is_valid", 0)>>, <<>>)
       ELSE IF pre.raised
       THEN Outcome(table, counter, NoResponse, "ValidationError",
                    <<Ev("is_valid", 0)>> \o pre.log, <<one.obj>>)
       ELSE IF st.error # "none"
       THEN Outcome(table, counter, NoResponse, st.error,
                    <<Ev("is_valid", 0)>> \o pre.log \o <<Ev("save_force_insert", 0)>>,
                    <<one.obj>>)
       ELSE Outcome(st.db, st.nextpk, Response(Data(st.saved), HTTP_201_CREATED), "none",
                    <<Ev("is_valid", 0)>> \o pre.log
                      \o <<Ev("save_force_insert", 0), Ev("post_save_created", 1)>>,
                    st.saved)

\* ----------------------------------------------------- BulkCreateModelMixin
\* mutant: every payload is served by the bulk path
TakesBulkPath_Always(bulk, post_force_bulk) == TRUE

\* `if not bulk and not post_force_bulk` is the single-object path; else bulk
TakesBulkPath(bulk, post_force_bulk) == bulk \/ post_force_bulk

\* ids_list: the truthy identities of the items of request.DATA.  Iterating a
\* dict payload yields its keys, which have no identity
IdsList(payload) ==
    IF payload.list
    THEN {GetIdentity(payload.items[i]) : i \in 1..Len(payload.items)} \ {NoId}
    ELSE {}

\* instance_qs: the filtered queryset, restricted to pk__in=ids_list
CreateInstanceQs(table, hide, payload) ==
    Instances(table, FilterQueryset(table, hide) \cap {CoercePk(id) : id \in IdsList(payload)})

\* the serializer create validates with
CreateSerializer(table, hide, payload, post_allow_update) ==
    IF post_allow_update
    THEN IsValidMany(CreateInstanceQs(table, hide, payload), TRUE, payload, TRUE, FALSE)
    ELSE IsValidMany(<<>>, FALSE, payload, FALSE, FALSE)

\* mutant: create goes on whatever is_valid() answered
CreateProceeds_Always(serializer) == TRUE

\* `if serializer.is_valid():`
CreateProceeds(serializer) == serializer.valid

\* serializer.save(force_insert=not post_allow_update)
CreateSaveEvent(post_allow_update) ==
    IF post_allow_update THEN Ev("save", 0) ELSE Ev("save_force_insert", 0)

\* mutant: pre_bulk_save is called before the per-object pre_save hooks
CreateLog_BulkHookFirst(n, m, post_allow_update) ==
    <<Ev("pre_bulk_save", 0)>> \o Calls("pre_save", n)
      \o <<CreateSaveEvent(post_allow_update), Ev("post_bulk_save", 0)>>
      \o Calls("post_save_created", m)

\* the calls of a bulk create after a successful validation of n objects, with
\* m objects returned by save
CreateLog(n, m, post_allow_update) ==
    Calls("pre_save", n) \o <<Ev("pre_bulk_save", 0), CreateSaveEvent(post_allow_update),
                              Ev("post_bulk_save", 0)>>
      \o Calls("post_save_created", m)

BulkCreate(table, counter, payload, hide, post_allow_update, failAt) ==
    LET serializer == CreateSerializer(table, hide, payload, post_allow_update)
        n == Len(serializer.objects)
        pre == PreSaveLoop(n, failAt)
        st == SerializerSave(table, counter, serializer.objects, serializer.deleted,
                             ~post_allow_update, FALSE)
    IN IF ~CreateProceeds(serializer)
       THEN Outcome(table, counter, Response(serializer.errors, HTTP_400_BAD_REQUEST),
                    "none", <<Ev("is_valid", 0)>>, <<>>)
       ELSE IF pre.raised
       THEN Outcome(table, counter, NoResponse, "ValidationError",
                    <<Ev("is_valid", 0)>> \o pre.log, serializer.objects)
       ELSE IF st.error # "none"
       THEN Outcome(table, counter, NoResponse, st.error,
                    <<Ev("is_valid", 0)>> \o pre.log
                      \o <<Ev("pre_bulk_save", 0), CreateSaveEvent(post_allow_update)>>,
                    serializer.objects)
       ELSE Outcome(st.db, st.nextpk, Response(Data(st.saved), HTTP_201_CREATED), "none",
                    <<Ev("is_valid", 0)>> \o CreateLog(n, Len(st.saved), post_allow_update),
                    st.saved)

CreateOutcome(table, counter, payload, hide, post_force_bulk, post_allow_update, failAt) ==
    IF TakesBulkPath(payload.list, post_force_bulk)
    THEN BulkCreate(table, counter, payload, hide, post_allow_update, failAt)
    ELSE SingleCreate(table, counter, payload, failAt)

CreateIds == {NoId, IntId(1), StrId(1), IntId(2)}
CreateItems == {Item(id, a, "y") : id \in CreateIds, a \in {"y", Bad}}
CreatePayloads ==
    {[list |-> TRUE, items |-> s] : s \in SeqsUpTo(CreateItems, MaxLen)}
      \cup {[list |-> FALSE, items |-> <<i>>] : i \in CreateItems}

\* post_force_bulk and post_allow_update are the values create computes first:
\* the keyword argument if given, else the view's setting, else False
Create ==
    /\ Idle
    /\ \E payload \in CreatePayloads, hide \in HideChoices,
       post_force_bulk \in BOOLEAN, post_allow_update \in BOOLEAN,
       failAt \in 0..MaxLen :
        /\ failAt <= Len(payload.items)
        /\ Serve(Request("create", NoParam, hide, payload, post_force_bulk,
                         post_allow_update, FALSE, failAt),
                 CreateOutcome(db, nextpk, payload, hide, post_force_bulk,
                               post_allow_update, failAt))

\* ----------------------------------------------------- BulkUpdateModelMixin
\* mutant: partial_bulk_update leaves partial at bulk_update's default
PartialKwarg_Default == FALSE

\* partial_bulk_update: kwargs['partial'] = True
PartialKwarg == TRUE

\* the calls of a bulk update after a successful pre_save loop over n objects
UpdateLog(n, m) ==
    <<Ev("pre_bulk_update", 0), Ev("save_force_update", 0), Ev("post_bulk_update", 0)>>
      \o Calls("post_save_updated", m)

MessageDict == [kind |-> "message_dict", items |-> <<>>]

BulkUpdateOutcome(table, counter, payload, hide, partial, failAt) ==
    LET serializer == IsValidMany(Instances(table, FilterQueryset(table, hide)), TRUE,
                                  payload, FALSE, partial)
        n == Len(serializer.objects)
        pre == PreSaveLoop(n, failAt)
        st == SerializerSave(table, counter, serializer.objects, serializer.deleted,
                             FALSE, TRUE)
    IN IF ~serializer.valid
       THEN Outcome(table, counter, Response(serializer.errors, HTTP_400_BAD_REQUEST),
                    "none", <<Ev("is_valid", 0)>>, <<>>)
       ELSE IF pre.raised
       THEN Outcome(table, counter, Response(MessageDict, HTTP_400_BAD_REQUEST), "none",
                    <<Ev("is_valid", 0)>> \o pre.log, serializer.objects)
       ELSE IF st.error # "none"
       THEN Outcome(table, counter, NoResponse, st.error,
                    <<Ev("is_valid", 0)>> \o pre.log
                      \o <<Ev("pre_bulk_update", 0), Ev("save_force_update", 0)>>,
                    serializer.objects)
       ELSE Outcome(st.db, st.nextpk, Response(Data(st.saved), HTTP_200_OK), "none",
                    <<Ev("is_valid", 0)>> \o pre.log \o UpdateLog(n, Len(st.saved)),
                    st.saved)

UpdateIds == {IntId(1), IntId(2)}
UpdateItems == {Item(id, a, b) : id \in UpdateIds, a \in {Absent, "y", Bad}, b \in {Absent, "y"}}
UpdatePayloads ==
    {[list |-> TRUE, items |-> s] : s \in SeqsUpTo(UpdateItems, MaxLen)}
      \cup {[list |-> FALSE, items |-> <<i>>] : i \in UpdateItems}

BulkUpdate ==
    /\ Idle
    /\ \E payload \in UpdatePayloads, hide \in HideChoices, failAt \in 0..MaxLen :
        /\ failAt <= Len(payload.items)
        /\ Serve(Request("bulk_update", NoParam, hide, payload, FALSE, FALSE, FALSE, failAt),
                 BulkUpdateOutcome(db, nextpk, payload, hide, FALSE, failAt))

PartialBulkUpdate ==
    /\ Idle
    /\ \E payload \in UpdatePayloads, hide \in HideChoices, failAt \in 0..MaxLen :
        /\ failAt <= Len(payload.items)
        /\ Serve(Request("partial_bulk_update", NoParam, hide, payload, FALSE, FALSE,
                         PartialKwarg, failAt),
                 BulkUpdateOutcome(db, nextpk, payload, hide, PartialKwarg, failAt))

\* ------------------------------------------------------------------- system
Init ==
    /\ db = [k \in FixturePks |-> [a |-> "x", b |-> "x"]]
    /\ nextpk = Cardinality(FixturePks) + 1
    /\ req = NoRequest
    /\ db0 = db
    /\ nextpk0 = nextpk
    /\ resp = NoResponse
    /\ raised = "none"
    /\ log = <<>>
    /\ objs = <<>>

\* the response has been returned: the worker is free for the next request
Finish ==
    /\ req # NoRequest
    /\ req' = NoRequest
    /\ db0' = db
    /\ nextpk0' = nextpk
    /\ resp' = NoResponse
    /\ raised' = "none"
    /\ log' = <<>>
    /\ objs' = <<>>
    /\ UNCHANGED <<db, nextpk>>

NextDestroy == Destroy \/ Finish
SpecDestroy == Init /\ [][NextDestroy]_vars

NextCreate == Create \/ Finish
SpecCreate == Init /\ [][NextCreate]_vars

NextUpdate == BulkUpdate \/ PartialBulkUpdate \/ Finish
SpecUpdate == Init /\ [][NextUpdate]_vars

Next == Create \/ BulkUpdate \/ PartialBulkUpdate \/ Destroy \/ Finish
Spec == Init /\ [][Next]_vars


\* ================================================================= claims
Before(S, T) == \A i \in S, j \in T : i < j
Once(e) == Count(log, e) = 1
Never(e) == Count(log, e) = 0
\* every object of serializer.object got exactly one call of hook e
OncePerObject(e) ==
    /\ Count(log, e) = Len(objs)
    /\ \A k \in 1..Len(objs) : \E i \in Positions(log, e) : log[i].i = k
Unchanged == db = db0 /\ nextpk = nextpk0

DeleteHooks == {"pre_delete", "pre_bulk_delete", "delete_object", "post_bulk_delete", "post_delete"}
SaveHooks == {"pre_save", "pre_bulk_save", "post_bulk_save", "post_save_created",
              "save", "save_force_insert"}

\* ---------------------------------------------------------------------- C1
\* C1: a destroy whose query parameters carry no idList answers 400 with no
\* body, leaves the table as it was and calls none of pre_delete,
\* pre_bulk_delete, delete_object, post_bulk_delete, post_delete.
C1_NoIdListRejected ==
    (req.op = "destroy" /\ ~req.idList.present) =>
        /\ resp = Response(NoBody, HTTP_400_BAD_REQUEST)
        /\ raised = "none"
        /\ Unchanged
        /\ \A i \in 1..Len(log) : log[i].e \notin DeleteHooks

C1_Witness ==
    /\ req.op = "destroy" /\ ~req.idList.present
    /\ DOMAIN db0 = FixturePks
    /\ resp.status = HTTP_400_BAD_REQUEST

\* ---------------------------------------------------------------------- C2
\* the ids the claim reads off an idList: the values of its comma-separated
\* tokens that are decimal numbers; every other token is dropped
ClaimedIds(value) ==
    LET toks == DelListStrs(value)
    IN {IntOf(toks[i], 0) : i \in {j \in 1..Len(toks) : ~IntRaises(toks[j])}}

\* C2: a destroy with an idList deletes exactly the rows of the filtered
\* queryset whose pk is a numeric token of the idList, leaves every other row
\* unchanged, drops non-numeric and empty tokens without an error, and
\* answers 204.
C2_DeletesExactlyListed ==
    (req.op = "destroy" /\ req.idList.present) =>
        /\ raised = "none"
        /\ resp.status = HTTP_204_NO_CONTENT
        /\ DOMAIN db = DOMAIN db0 \ (FilterQueryset(db0, req.hide) \cap ClaimedIds(req.idList.s))
        /\ \A k \in DOMAIN db : db[k] = db0[k]

\* what does hold of the code: the same, whenever no int() raised
DestroyDeletesExactlyUnlessRaised ==
    (req.op = "destroy" /\ req.idList.present /\ raised = "none") =>
        /\ resp = Response(NoBody, HTTP_204_NO_CONTENT)
        /\ DOMAIN db = DOMAIN db0 \ (FilterQueryset(db0, req.hide) \cap ClaimedIds(req.idList.s))
        /\ \A k \in DOMAIN db : db[k] = db0[k]

\* ---------------------------------------------------------------------- C8
\* C8: in a destroy that answers 204 the calls are, in order: pre_delete for
\* every matched object, pre_bulk_delete once, delete_object for every matched
\* object, post_bulk_delete once, post_delete for every matched object; each
\* matched object gets exactly one of each per-object call, and no object is
\* deleted before every pre_delete and pre_bulk_delete has run.
C8_DestroyOrder ==
    (req.op = "destroy" /\ resp.status = HTTP_204_NO_CONTENT) =>
        /\ objs = DestroyFiltered(db0, req.hide, req.idList.s)
        /\ OncePerObject("pre_delete")
        /\ OncePerObject("delete_object")
        /\ OncePerObject("post_delete")
        /\ Once("pre_bulk_delete")
        /\ Once("post_bulk_delete")
        /\ Before(Positions(log, "pre_delete"), Positions(log, "pre_bulk_delete"))
        /\ Before(Positions(log, "pre_bulk_delete"), Positions(log, "delete_object"))
        /\ Before(Positions(log, "pre_delete"), Positions(log, "delete_object"))
        /\ Before(Positions(log, "delete_object"), Positions(log, "post_bulk_delete"))
        /\ Before(Positions(log, "post_bulk_delete"), Positions(log, "post_delete"))
        /\ DOMAIN db = DOMAIN db0 \ {objs[i].pk : i \in 1..Len(objs)}

C8_Witness ==
    /\ req.op = "destroy" /\ resp.status = HTTP_204_NO_CONTENT
    /\ Len(objs) = 2
    /\ db = << >>

\* ---------------------------------------------------------------------- C3
Items == req.payload.items
BulkCreateServed == req.op = "create" /\ TakesBulkPath(req.payload.list, req.post_force_bulk)

\* C3: for a list payload given to create, every item is validated before any
\* is persisted: if an item fails validation the answer is 400 with the
\* serializer's errors, no row is inserted or updated, and none of pre_save,
\* pre_bulk_save, post_bulk_save, post_save is called.
C3_ValidateBeforePersist ==
    (req.op = "create" /\ req.payload.list) =>
        /\ log # <<>> /\ log[1] = Ev("is_valid", 0)
        /\ (\E i \in 1..Len(Items) : FieldErrors(Items[i], FALSE) # {}) =>
              /\ resp.status = HTTP_400_BAD_REQUEST
              /\ resp.body = [kind |-> "errors",
                              items |-> [i \in 1..Len(Items) |-> FieldErrors(Items[i], FALSE)]]
              /\ raised = "none"
              /\ Unchanged
              /\ \A i \in 1..Len(log) : log[i].e \notin SaveHooks

C3_Witness ==
    /\ req.op = "create" /\ req.payload.list /\ Len(Items) = 2
    /\ FieldErrors(Items[1], FALSE) = {}
    /\ FieldErrors(Items[2], FALSE) # {}
    /\ req.post_allow_update
    /\ Items[1].id = IntId(1) /\ 1 \in DOMAIN db0
    /\ resp.status = HTTP_400_BAD_REQUEST

\* ---------------------------------------------------------------------- C4
\* the items that carry the identity of a row of the filtered queryset
CarriesExisting(item) ==
    item.id # NoId /\ CoercePk(item.id) \in FilterQueryset(db0, req.hide)

\* C4: after a successful create with post_allow_update, every item carrying
\* the identity of a row of the filtered queryset has updated that row and
\* inserted nothing, every item without identity has been inserted, no
\* existing row has been deleted, and every row other than those targets is
\* unchanged.
C4_UpsertNoDelete ==
    (BulkCreateServed /\ req.post_allow_update /\ resp.status = HTTP_201_CREATED) =>
        /\ DOMAIN db0 \subseteq DOMAIN db
        /\ \A i \in 1..Len(Items) : CarriesExisting(Items[i]) =>
              LET pk == CoercePk(Items[i].id)
              IN pk \in DOMAIN db
                   /\ \E j \in 1..Len(Items) :
                         /\ CoercePk(Items[j].id) = pk
                         /\ db[pk] = [a |-> Items[j].a, b |-> Items[j].b]
        /\ Cardinality(DOMAIN db \ DOMAIN db0)
              = Cardinality({i \in 1..Len(Items) : ~CarriesExisting(Items[i])})
        /\ \A k \in DOMAIN db0 \cap DOMAIN db :
              (~\E i \in 1..Len(Items) : CarriesExisting(Items[i]) /\ CoercePk(Items[i].id) = k)
                 => db[k] = db0[k]

\* what does hold of the code: the same, for payloads whose identities are
\* numbers and pairwise distinct
DistinctNumericIds ==
    /\ \A i \in 1..Len(Items) : Items[i].id.t # "str"
    /\ \A i, j \in 1..Len(Items) : (i # j /\ Items[i].id # NoId) => Items[i].id # Items[j].id

CreateUpsertsDistinctNumericIds == DistinctNumericIds => C4_UpsertNoDelete

\* ---------------------------------------------------------------------- C5
\* C5: a non-list payload with post_force_bulk false is served exactly as by
\* the single-object create, whatever post_allow_update is: same response,
\* same effect on the table, no pre_bulk_save and no post_bulk_save; a list
\* payload or post_force_bulk true is served by the bulk path.
C5_SingleCreateRefined ==
    req.op = "create" =>
        /\ (~req.payload.list /\ ~req.post_force_bulk) =>
              LET single == SingleCreate(db0, nextpk0, req.payload, req.failAt)
              IN /\ resp = single.resp
                 /\ raised = single.raised
                 /\ db = single.db
                 /\ nextpk = single.nextpk
                 /\ log = single.log
                 /\ Never("pre_bulk_save") /\ Never("post_bulk_save")
        /\ (req.payload.list \/ req.post_force_bulk) =>
              /\ resp.status = HTTP_201_CREATED => Once("pre_bulk_save") /\ Once("post_bulk_save")
              /\ ~req.payload.list =>
                    resp = Response([kind |-> "errors", items |-> <<ExpectedList>>],
                                    HTTP_400_BAD_REQUEST)

C5_Witness ==
    /\ req.op = "create" /\ ~req.payload.list /\ ~req.post_force_bulk
    /\ req.post_allow_update
    /\ resp.status = HTTP_201_CREATED
    /\ Cardinality(DOMAIN db) = Cardinality(DOMAIN db0) + 1

\* ---------------------------------------------------------------------- C7
\* a validation failure: the serializer rejected the payload, or pre_save
\* raised ValidationError on an object
ValidationFailed ==
    \/ log = <<Ev("is_valid", 0)>> /\ req.op # "destroy"
    \/ req.failAt \in 1..Len(objs) /\ log[Len(log)] = Ev("pre_save", req.failAt)

\* C7: in bulk create, bulk update and bulk destroy a validation failure, be it
\* the serializer's or a ValidationError of a pre_save hook, is answered 400
\* with the error mapping; no exception leaves the handler.
C7_ValidationFailureIs400 ==
    (req.op \in {"bulk_update", "partial_bulk_update", "destroy"} \/ BulkCreateServed) =>
        (ValidationFailed =>
            /\ raised = "none"
            /\ resp.status = HTTP_400_BAD_REQUEST
            /\ resp.body.kind \in {"errors", "message_dict"})

\* ---------------------------------------------------------------------- C9
SaveEvents == {"save", "save_force_insert"}
SavePositions == {i \in 1..Len(log) : log[i].e \in SaveEvents}

\* C9: in a bulk create that answers 201 the calls are, in order: validation
\* of all items, pre_save for every item, pre_bulk_save once, persistence
\* (forced insert unless post_allow_update, else an upsert), then post_save
\* for every saved object and post_bulk_save once; the 201 carries the
\* serialized objects.
C9_CreateOrder ==
    (BulkCreateServed /\ resp.status = HTTP_201_CREATED) =>
        /\ log[1] = Ev("is_valid", 0) /\ Once("is_valid")
        /\ Len(objs) = Len(Items)
        /\ OncePerObject("pre_save")
        /\ Once("pre_bulk_save")
        /\ Cardinality(SavePositions) = 1
        /\ \A i \in SavePositions :
              log[i].e = IF req.post_allow_update THEN "save" ELSE "save_force_insert"
        /\ OncePerObject("post_save_created")
        /\ Once("post_bulk_save")
        /\ Before({1}, Positions(log, "pre_save"))
        /\ Before(Positions(log, "pre_save"), Positions(log, "pre_bulk_save"))
        /\ Before(Positions(log, "pre_bulk_save"), SavePositions)
        /\ Before({1}, SavePositions)
        /\ Before(SavePositions, Positions(log, "post_save_created"))
        /\ Before(SavePositions, Positions(log, "post_bulk_save"))
        /\ resp.body = Data(objs)
        /\ \A i \in 1..Len(objs) :
              objs[i].pk \in DOMAIN db /\ db[objs[i].pk] = [a |-> Items[i].a, b |-> Items[i].b]

C9_Witness ==
    /\ BulkCreateServed /\ resp.status = HTTP_201_CREATED
    /\ ~req.post_allow_update
    /\ Len(objs) = 2
    /\ Cardinality(DOMAIN db) = Cardinality(DOMAIN db0) + 2

\* ---------------------------------------------------------------------- C6
UpdateServed == req.op \in {"bulk_update", "partial_bulk_update"}

\* every item names a different row of the filtered queryset, with values the
\* fields accept
AllMatchedWellFormed ==
    /\ req.payload.list
    /\ \A i \in 1..Len(Items) :
          /\ Items[i].id.t = "int" /\ Items[i].id.n \in FilterQueryset(db0, req.hide)
          /\ Items[i].a # Bad /\ Items[i].b # Bad
    /\ \A i, j \in 1..Len(Items) : i # j => Items[i].id # Items[j].id

\* C6: partial_bulk_update runs the bulk update with partial true, and leaves
\* every field an item does not specify as it was on the matched row (the
\* fields it specifies are written); bulk_update runs with partial false,
\* needs every field of every item, and otherwise answers 400 and persists
\* nothing.
C6_PartialKeepsUnspecified ==
    /\ (req.op = "partial_bulk_update") =>
          /\ req.partial
          /\ (AllMatchedWellFormed /\ req.failAt = 0) =>
                /\ resp.status = HTTP_200_OK
                /\ \A i \in 1..Len(Items) : \A f \in Fields :
                      db[Items[i].id.n][f] =
                          IF Items[i][f] = Absent THEN db0[Items[i].id.n][f] ELSE Items[i][f]
                /\ \A k \in DOMAIN db0 :
                      (\A i \in 1..Len(Items) : Items[i].id.n # k) =>
                          k \in DOMAIN db /\ db[k] = db0[k]
                /\ DOMAIN db = DOMAIN db0
    /\ (req.op = "bulk_update") =>
          /\ ~req.partial
          /\ (req.payload.list /\ \E i \in 1..Len(Items) : \E f \in Fields : Items[i][f] = Absent) =>
                /\ resp.status = HTTP_400_BAD_REQUEST
                /\ raised = "none"
                /\ Unchanged

C6_Witness ==
    /\ req.op = "partial_bulk_update" /\ AllMatchedWellFormed /\ req.failAt = 0
    /\ Len(Items) = 2
    /\ Items[1].a = "y" /\ Items[1].b = Absent
    /\ db0[Items[1].id.n] = [a |-> "x", b |-> "x"]
    /\ db[Items[1].id.n] = [a |-> "y", b |-> "x"]

\* --------------------------------------------------------------------- C10
UpdateHooks == {"pre_bulk_update", "save_force_update", "post_bulk_update", "post_save_updated"}

C10_WitnessSuccess ==
    /\ req.op = "bulk_update" /\ resp.status = HTTP_200_OK /\ Len(objs) = 2 /\ db # db0

=============================================================================
